---- MODULE Spec2Model ----
(***************************************************************************)
(* Model of the CDO stream processor of xilplmi (xplmi_cdo.c):             *)
(* XPlmi_InitCdo, XPlmi_ProcessCdo and the static helpers it calls.        *)
(*                                                                         *)
(* A u32 is held as the int32 two's-complement reading of its bit pattern  *)
(* (0xFFFFFFFF is -1, 0xFFFFFFFD is -3).  U32Add and U32Sub are addition   *)
(* and subtraction modulo 2^32 on such readings; the unsigned comparisons  *)
(* are U32Lt, U32Gt and U32Ge.                                             *)
(***************************************************************************)
EXTENDS Integers, Sequences, FiniteSets, TLC

VARIABLES
    stream,     \* the words the loader delivers: header, commands, padding
    fed,        \* number of words of stream delivered so far
    det,        \* TRUE: handlers are fixed functions of the opcode and succeed
    Cdo,        \* the XPlmiCdo structure
    pc,         \* position of XPlmi_ProcessCdo: "idle", "loop", "end"
    loc,        \* locals of XPlmi_ProcessCdo: Buf, BufPtr, BufLen, Size, Status, SldInitiated
    ret,        \* status the last call returned ("none" before the first call)
    log,        \* execute dispatches of the fixed handlers since XPlmi_InitCdo
    last,       \* the most recent dispatch (execute or resume) and what surrounded it
    call        \* what the current (or last) call has done so far

vars == <<stream, fed, det, Cdo, pc, loc, ret, log, last, call>>

(***************************************************************************)
(* Program constants.                                                      *)
(***************************************************************************)
XPLMI_CMD_LEN_TEMPBUF == 8
XPLMI_CDO_HDR_LEN == 5
XPLMI_CDO_HDR_IDN_WRD == 5194819
XPLMI_CMD_END == 511
XPLMI_MAX_SHORT_CMD_LEN == 255
XPLMI_LONG_CMD_HDR_LEN == 2
XPLMI_MAX_LONG_CMD_LEN == -3
XPLMI_CMD_STATE_START == 0
XPLMI_CMD_STATE_RESUME == 1

XST_SUCCESS == "XST_SUCCESS"
XST_FAILURE == "XST_FAILURE"
XPLMI_ERR_CDO_HDR_ID == "XPLMI_ERR_CDO_HDR_ID"
XPLMI_ERR_CDO_CHECKSUM == "XPLMI_ERR_CDO_CHECKSUM"
XPLMI_ERR_MEMCPY_CMD_EXEC == "XPLMI_ERR_MEMCPY_CMD_EXEC"
XPLMI_INVALID_BREAK_LENGTH == "XPLMI_INVALID_BREAK_LENGTH"
HANDLER_FAILURE == "HANDLER_FAILURE"

(***************************************************************************)
(* Bounds of the model.                                                    *)
(***************************************************************************)
MaxChunk == 9       \* longest chunk the loader hands over (or all that is left)
MaxSkip == 1        \* a break request skips 0..MaxSkip words after its command
MaxExtra == 1       \* extra words a handler may report
MaxStray == 1       \* loop iterations followed once the view has left the chunk

(***************************************************************************)
(* u32 arithmetic.                                                         *)
(***************************************************************************)
U32Add(a, b) ==
    IF a >= 0 /\ b >= 0 /\ a > 2147483647 - b
    THEN ((a - 2147483647) - 1) + ((b - 2147483647) - 1)
    ELSE IF a < 0 /\ b < 0 /\ a < ((0 - 2147483647) - 1) - b
    THEN ((a + 2147483647) + 1) + ((b + 2147483647) + 1)
    ELSE a + b
U32Sub(a, b) ==
    IF b = (0 - 2147483647) - 1 THEN U32Add(a, b) ELSE U32Add(a, 0 - b)
U32Not(a) == (0 - 1) - a
U32Lt(a, b) == IF (a >= 0) = (b >= 0) THEN a < b ELSE b < 0
U32Gt(a, b) == U32Lt(b, a)
U32Ge(a, b) == ~U32Lt(a, b)

(***************************************************************************)
(* Wire format.                                                            *)
(***************************************************************************)
\* A command word: opcode in the low half, short length in bits [23:16].
CmdWord(op, len) == op + (len * 65536)
ShortLen(CmdId) == (CmdId \div 65536) % 256
Opcode(CmdId) == CmdId % 65536

\* Sum of CdoHdr[0 .. XPLMI_CDO_HDR_LEN - 2], as the for loop adds it up.
RECURSIVE HdrSum(_, _)
HdrSum(CdoHdr, Index) ==
    IF Index = 0 THEN 0 ELSE U32Add(HdrSum(CdoHdr, Index - 1), CdoHdr[Index])

\* Faulty variant: the identification word is not tested.
XPlmi_CdoVerifyHeader_NoId(CdoHdr) ==
    IF U32Not(HdrSum(CdoHdr, XPLMI_CDO_HDR_LEN - 1)) # CdoHdr[XPLMI_CDO_HDR_LEN]
    THEN XPLMI_ERR_CDO_CHECKSUM
    ELSE XST_SUCCESS

XPlmi_CdoVerifyHeader(CdoHdr) ==
    IF CdoHdr[2] # XPLMI_CDO_HDR_IDN_WRD
    THEN XPLMI_ERR_CDO_HDR_ID
    ELSE IF U32Not(HdrSum(CdoHdr, XPLMI_CDO_HDR_LEN - 1)) # CdoHdr[XPLMI_CDO_HDR_LEN]
         THEN XPLMI_ERR_CDO_CHECKSUM
         ELSE XST_SUCCESS

\* Faulty variant: the long length is not capped.
XPlmi_CmdSize_NoCap(Buf0, Buf1, AvailLen) ==
    IF ~U32Ge(AvailLen, 1)
    THEN 1
    ELSE IF ShortLen(Buf0) = XPLMI_MAX_SHORT_CMD_LEN
         THEN U32Add(XPLMI_LONG_CMD_HDR_LEN,
                     IF U32Ge(AvailLen, XPLMI_LONG_CMD_HDR_LEN)
                     THEN Buf1 ELSE ShortLen(Buf0))
         ELSE U32Add(1, ShortLen(Buf0))

XPlmi_CmdSize(Buf0, Buf1, AvailLen) ==
    IF ~U32Ge(AvailLen, 1)
    THEN 1
    ELSE IF ShortLen(Buf0) = XPLMI_MAX_SHORT_CMD_LEN
         THEN LET PayloadLen == IF U32Ge(AvailLen, XPLMI_LONG_CMD_HDR_LEN)
                                THEN Buf1 ELSE ShortLen(Buf0)
                  Capped == IF U32Gt(PayloadLen, XPLMI_MAX_LONG_CMD_LEN)
                            THEN XPLMI_MAX_LONG_CMD_LEN ELSE PayloadLen
              IN  U32Add(XPLMI_LONG_CMD_HDR_LEN, Capped)
         ELSE U32Add(1, ShortLen(Buf0))

\* Faulty variant: the header words are counted as payload present in the view.
XPlmi_SetupCmd_NoHdr(Cmd, Buf0, Buf1, BufLen) ==
    LET Short == ShortLen(Buf0)
        Long == Short = XPLMI_MAX_SHORT_CMD_LEN
        DeclLen == IF Long THEN Buf1 ELSE Short
    IN  [Cmd EXCEPT !.CmdId = Buf0,
                    !.Len = DeclLen,
                    !.ProcessedLen = 0,
                    !.PayloadLen = IF U32Gt(DeclLen, BufLen) THEN BufLen ELSE DeclLen]

\* The fields XPlmi_SetupCmd writes, applied to the XPlmi_Cmd record Cmd.
XPlmi_SetupCmd(Cmd, Buf0, Buf1, BufLen) ==
    LET Short == ShortLen(Buf0)
        Long == Short = XPLMI_MAX_SHORT_CMD_LEN
        HdrLen == IF Long THEN XPLMI_LONG_CMD_HDR_LEN ELSE 1
        DeclLen == IF Long THEN Buf1 ELSE Short
    IN  [Cmd EXCEPT !.CmdId = Buf0,
                    !.Len = DeclLen,
                    !.ProcessedLen = 0,
                    !.PayloadLen = IF U32Gt(DeclLen, U32Sub(BufLen, HdrLen))
                                   THEN U32Sub(BufLen, HdrLen) ELSE DeclLen]

(***************************************************************************)
(* The command dispatch registry: what a handler may do to the XPlmi_Cmd   *)
(* it is given.  An outcome is the handler's return status, its deferred   *)
(* error signal, its break request (none, a target k words after the words *)
(* this dispatch consumed, or a target already passed) and the extra words *)
(* it reports (a keyhole transfer, which leaves PayloadLen = Len + 1).     *)
(***************************************************************************)
Plain == [ok |-> TRUE, deferred |-> FALSE, brk |-> "none", k |-> 0, extra |-> 0]

AllOutcomes ==
    {Plain, [Plain EXCEPT !.deferred = TRUE]}
    \cup {[Plain EXCEPT !.brk = "skip", !.k = k] : k \in 0..MaxSkip}
    \cup {[Plain EXCEPT !.brk = "bad"]}
    \cup {[Plain EXCEPT !.extra = e] : e \in 1..MaxExtra}
    \cup {[Plain EXCEPT !.ok = FALSE], [Plain EXCEPT !.ok = FALSE, !.deferred = TRUE]}

\* The fixed handlers: opcode 3 reports a deferred error, opcode 16 + k
\* requests a break k words after its command, every other opcode only runs.
DetOutcome(CmdId) ==
    IF Opcode(CmdId) >= 16
    THEN [Plain EXCEPT !.brk = "skip", !.k = Opcode(CmdId) - 16]
    ELSE IF Opcode(CmdId) = 3 THEN [Plain EXCEPT !.deferred = TRUE] ELSE Plain

HandlerOutcomes(CmdId) == IF det THEN {DetOutcome(CmdId)} ELSE AllOutcomes

\* What a resume entry may do: extra words are reported on completion only,
\* that is by the resume that is given the last words of the payload.
ResumeOutcomes(cdo, BufLen) ==
    {o \in HandlerOutcomes(cdo.Cmd.CmdId) :
        o.extra > 0 => ~U32Gt(cdo.Cmd.Len, U32Add(cdo.Cmd.ProcessedLen, BufLen))}

\* The handler run on Cmd with outcome o; Size is the number of words of the
\* view this dispatch consumes.  On success the wrapper adds the payload it
\* was given to Cmd.ProcessedLen.
RunHandler(Cmd, o, Size) ==
    LET c1 == [Cmd EXCEPT
                 !.DeferredError = (@ \/ o.deferred),
                 !.BreakLength =
                     IF o.brk = "skip" THEN U32Add(U32Add(Cmd.ProcessedCdoLen, Size), o.k)
                     ELSE IF o.brk = "bad" THEN U32Sub(U32Add(Cmd.ProcessedCdoLen, Size), 1)
                     ELSE @,
                 !.ExtraWords = IF o.extra > 0 THEN o.extra ELSE @,
                 !.PayloadLen = IF o.extra > 0 THEN U32Add(Cmd.Len, 1) ELSE @]
    IN  IF o.ok THEN [c1 EXCEPT !.ProcessedLen = U32Add(@, c1.PayloadLen)] ELSE c1

XPlmi_CmdExecute(Cmd, o, Size) == RunHandler(Cmd, o, Size)
XPlmi_CmdResume(Cmd, o, Size) == RunHandler(Cmd, o, Size)
HandlerStatus(o) == IF o.ok THEN XST_SUCCESS ELSE HANDLER_FAILURE

(***************************************************************************)
(* XPlmi_CdoCmdResume and XPlmi_CdoCmdExecute.  Each yields the new        *)
(* XPlmiCdo, *Size, the status returned and whether a handler was invoked. *)
(***************************************************************************)
XPlmi_CdoCmdResume(cdo, BufLen, o) ==
    LET Cmd == cdo.Cmd
        Done == ~U32Gt(Cmd.Len, U32Add(Cmd.ProcessedLen, BufLen))
        PayloadLen == IF Done THEN U32Sub(Cmd.Len, Cmd.ProcessedLen) ELSE BufLen
        c1 == [cdo EXCEPT !.Cmd.PayloadLen = PayloadLen,
                          !.CmdState = IF Done THEN XPLMI_CMD_STATE_START ELSE @,
                          !.Cmd.ProcessedCdoLen = cdo.ProcessedCdoLen]
        c2 == [c1 EXCEPT !.Cmd = XPlmi_CmdResume(c1.Cmd, o, PayloadLen)]
    IN  [cdo |-> [c2 EXCEPT !.ProcessedCdoLen = U32Add(@, PayloadLen)],
         Size |-> PayloadLen,
         Status |-> HandlerStatus(o),
         disp |-> "resume"]

\* Lines 359-365: the accounting after a successful execute.
ExecuteAccount(cdo, Size) ==
    LET c1 == [cdo EXCEPT !.ProcessedCdoLen = U32Add(@, Size)]
    IN  IF c1.Cmd.Len = U32Sub(c1.Cmd.PayloadLen, 1)
        THEN [c1 EXCEPT !.ProcessedCdoLen = U32Add(@, c1.Cmd.ExtraWords),
                        !.Cmd.PayloadLen = c1.Cmd.Len,
                        !.CmdState = XPLMI_CMD_STATE_START,
                        !.CopiedCmdLen = 0]
        ELSE c1

\* Faulty variant: the command is copied whatever the length of the view.
NeedsStitch_NoThreshold(Size, BufLen) == U32Gt(Size, BufLen)

\* Faulty variant: a command is never copied to the temporary buffer.
NeedsStitch_Never(Size, BufLen) == FALSE

\* Lines 310-326: whether the command is copied to the temporary buffer.
NeedsStitch(Size, BufLen) ==
    U32Gt(Size, BufLen) /\ U32Lt(BufLen, XPLMI_CMD_LEN_TEMPBUF)

\* View is the words BufPtr[0 .. BufLen-1] that lie inside the chunk memory;
\* cpyOk is the outcome of Xil_SMemCpy.
XPlmi_CdoCmdExecute(cdo, Buf0, Buf1, View, BufLen, Size, o, cpyOk) ==
    IF Buf0 = XPLMI_CMD_END
    THEN [cdo |-> [cdo EXCEPT !.CmdEndDetected = TRUE],
          Size |-> Size, Status |-> XST_SUCCESS, disp |-> "end"]
    ELSE
    LET Size1 == XPlmi_CmdSize(Buf0, Buf1, BufLen)
        c1 == [cdo EXCEPT !.Cmd.Len = Size1]
    IN  IF NeedsStitch(Size1, BufLen)
        THEN IF ~cpyOk
             THEN [cdo |-> c1, Size |-> Size1,
                   Status |-> XPLMI_ERR_MEMCPY_CMD_EXEC, disp |-> "stitchfail"]
             ELSE [cdo |-> [c1 EXCEPT !.TempCmdBuf = View, !.CopiedCmdLen = BufLen],
                   Size |-> BufLen, Status |-> XST_SUCCESS, disp |-> "stitch"]
        ELSE
        LET Partial == U32Gt(Size1, BufLen)
            Size2 == IF Partial THEN BufLen ELSE Size1
            c2 == [c1 EXCEPT !.CmdState = IF Partial THEN XPLMI_CMD_STATE_RESUME ELSE @,
                             !.Cmd.BreakLength = 0]
            c3 == [c2 EXCEPT !.Cmd = [XPlmi_SetupCmd(c2.Cmd, Buf0, Buf1, Size2)
                                        EXCEPT !.DeferredError = FALSE,
                                               !.ProcessedCdoLen = cdo.ProcessedCdoLen]]
            c4 == [c3 EXCEPT !.Cmd = XPlmi_CmdExecute(c3.Cmd, o, Size2)]
        IN  IF ~o.ok
            THEN [cdo |-> c4, Size |-> Size2, Status |-> HandlerStatus(o), disp |-> "execute"]
            ELSE [cdo |-> ExecuteAccount(c4, Size2), Size |-> Size2,
                  Status |-> XST_SUCCESS, disp |-> "execute"]

(***************************************************************************)
(* The objects the loader delivers.                                        *)
(***************************************************************************)
\* A valid header for an object of DeclLen command words.
CdoHeader(DeclLen) ==
    LET h == <<4, XPLMI_CDO_HDR_IDN_WRD, 512, DeclLen>>
    IN  Append(h, U32Not(HdrSum(h, XPLMI_CDO_HDR_LEN - 1)))

PayloadWord == CmdWord(2, 0)    \* a payload word that reads as a command

\* Short commands, a break request and END, then padding.
BodyShort ==
    <<CmdWord(1, 0), CmdWord(17, 0), CmdWord(2, 0),
      CmdWord(3, 2), PayloadWord, XPLMI_CMD_END, XPLMI_CMD_END>>
\* A command of ten words (longer than a view of eight or nine), then END.
BodyLong ==
    <<CmdWord(1, 9), PayloadWord, PayloadWord, PayloadWord, XPLMI_CMD_END,
      PayloadWord, PayloadWord, PayloadWord, PayloadWord, PayloadWord,
      CmdWord(3, 0), XPLMI_CMD_END>>
\* A long-form command, a break over a payload-carrying command, no END:
\* the object ends at its declared length, and one padding word follows.
BodyLongForm ==
    <<CmdWord(1, XPLMI_MAX_SHORT_CMD_LEN), 2, PayloadWord, PayloadWord,
      CmdWord(18, 1), PayloadWord, CmdWord(2, 1), PayloadWord, CmdWord(3, 0)>>

WellFormedStreams ==
    {CdoHeader(Len(BodyShort)) \o BodyShort \o <<PayloadWord, PayloadWord>>,
     CdoHeader(Len(BodyLong)) \o BodyLong,
     CdoHeader(Len(BodyLongForm)) \o BodyLongForm \o <<PayloadWord>>}

\* Values a corrupted header word may hold instead of w: its neighbours, its
\* complement, the identification word and the ends of the u32 range.
CorruptValues(w) ==
    {0, 1, 0 - 1, U32Add(w, 1), U32Sub(w, 1), U32Not(w), XPLMI_CDO_HDR_IDN_WRD,
     2147483647, (0 - 2147483647) - 1} \ {w}

\* The valid header of a two-word object with word i replaced by v.
HdrCorrupt(i, v) == [CdoHeader(2) EXCEPT ![i] = v]

\* Objects whose header has one word before the checksum word replaced.
BadHeaderStreams ==
    UNION {{HdrCorrupt(i, v) \o <<CmdWord(1, 0), XPLMI_CMD_END>> :
               v \in CorruptValues(CdoHeader(2)[i])} :
           i \in 1..(XPLMI_CDO_HDR_LEN - 1)}

\* What a read past the end of the chunk memory may find.
StrayWords == {CmdWord(1, 0), XPLMI_CMD_END}

\* BufPtr[i] for the view that starts Ptr words into the memory Buf.
ReadWord(Buf, Ptr, i) ==
    IF Ptr + i >= 0 /\ Ptr + i < Len(Buf) THEN {Buf[Ptr + i + 1]} ELSE StrayWords

\* The words of BufPtr[0 .. BufLen-1] that lie inside Buf.
ViewWords(Buf, Ptr, BufLen) ==
    IF Ptr >= 0 /\ Ptr < Len(Buf) /\ BufLen > 0
    THEN SubSeq(Buf, Ptr + 1, IF Ptr + BufLen < Len(Buf) THEN Ptr + BufLen ELSE Len(Buf))
    ELSE <<>>

(***************************************************************************)
(* XPlmi_InitCdo: every field zero, Cdo1stChunk TRUE.                      *)
(***************************************************************************)
CmdZero ==
    [CmdId |-> 0, Len |-> 0, PayloadLen |-> 0, ProcessedLen |-> 0,
     BreakLength |-> 0, DeferredError |-> FALSE, ExtraWords |-> 0,
     ProcessedCdoLen |-> 0]

CdoZero ==
    [BufLen |-> 0, CdoLen |-> 0, ProcessedCdoLen |-> 0, CopiedCmdLen |-> 0,
     TempCmdBuf |-> <<>>, CmdState |-> XPLMI_CMD_STATE_START,
     CmdEndDetected |-> FALSE, Cdo1stChunk |-> TRUE, DeferredError |-> FALSE,
     Cmd |-> CmdZero]

LocZero ==
    [Buf |-> <<>>, base |-> 0, BufPtr |-> 0, BufLen |-> 0, Size |-> 0,
     Status |-> XST_FAILURE, SldInitiated |-> FALSE]

NoBreak == [set |-> FALSE, T |-> 0, P0 |-> 0, pos0 |-> 0]

NoReach == [set |-> FALSE, P |-> 0, pos |-> 0]

LastZero ==
    [kind |-> "none", at |-> 0, pos |-> 0, size |-> 0, avail |-> 0, ok |-> TRUE,
     brkAt |-> 0, from |-> NoBreak, pend |-> NoBreak, reached |-> NoReach,
     start |-> 0, total |-> 0, clean |-> TRUE, done |-> TRUE,
     sld |-> FALSE, grew |-> 0, stale |-> FALSE, extra |-> 0,
     defEver |-> FALSE, part |-> FALSE, retry |-> FALSE]

\* No command was copied to the temporary buffer in this call.
NoStitch ==
    [set |-> FALSE, P |-> 0, state |-> XPLMI_CMD_STATE_START, n |-> 0, len |-> 0,
     words |-> <<>>]

CallZero ==
    [sld |-> FALSE, n |-> 0, err |-> "none", errN |-> 0, hfail |-> FALSE,
     other |-> FALSE, jumped |-> FALSE, beyond |-> FALSE,
     first |-> FALSE, hdr |-> FALSE, ptr0 |-> 0,
     endAtEntry |-> FALSE, brkAtEntry |-> 0, PAtEntry |-> 0, viewLen |-> 0,
     defAtEntry |-> FALSE, defSeen |-> FALSE, after |-> 0, stray |-> 0,
     atEntry |-> CdoZero, copied |-> 0, chunk |-> 0, stitch |-> NoStitch,
     live |-> 0]

InitWith(Streams, Det) ==
    /\ stream \in Streams
    /\ det = Det
    /\ fed = 0
    /\ Cdo = CdoZero
    /\ pc = "idle"
    /\ loc = LocZero
    /\ ret = "none"
    /\ log = <<>>
    /\ last = LastZero
    /\ call = CallZero

Init == InitWith(WellFormedStreams \cup BadHeaderStreams, FALSE)
InitDet == InitWith(WellFormedStreams, TRUE)

(***************************************************************************)
(* XPlmi_ProcessCdo, lines 382-451: from the entry to the loop.            *)
(***************************************************************************)
\* Faulty variant: a failed verification still clears the first-chunk flag.
HeaderFailed_ClearsFirst(cdo) == [cdo EXCEPT !.Cdo1stChunk = FALSE]

\* Lines 391-394: a failed verification goes to END with nothing written.
HeaderFailed(cdo) == cdo

\* Faulty variant: the first-chunk flag is left set.
HeaderDone_StillFirst(cdo, CdoLen) ==
    [cdo EXCEPT !.CdoLen = CdoLen,
                !.BufLen = U32Sub(@, XPLMI_CDO_HDR_LEN)]

\* Lines 395-400: the header is verified; the flag is cleared, the declared
\* length is read and the header words leave the recorded length.
HeaderDone(cdo, CdoLen) ==
    [cdo EXCEPT !.Cdo1stChunk = FALSE,
                !.CdoLen = CdoLen,
                !.BufLen = U32Sub(@, XPLMI_CDO_HDR_LEN)]

\* Faulty variant: the view is not cut at the declared object length.
CapBufLen_NoCap(cdo, BufLen) == BufLen

\* Lines 409-412: the view never reaches past the declared object length.
CapBufLen(cdo, BufLen) ==
    IF U32Gt(U32Add(U32Add(BufLen, cdo.ProcessedCdoLen), cdo.CopiedCmdLen), cdo.CdoLen)
    THEN U32Sub(U32Sub(cdo.CdoLen, cdo.ProcessedCdoLen), cdo.CopiedCmdLen)
    ELSE BufLen

\* Faulty variant: END detected by an earlier call is forgotten.
EndSeenBefore_Never(cdo) == FALSE

\* Line 418: a call after END was detected only returns.
EndSeenBefore(cdo) == cdo.CmdEndDetected

\* Faulty variant: a target at the very end of the view counts as inside it.
BreakBeyondView_Strict(RemainingLen, BufLen) == U32Gt(RemainingLen, BufLen)

\* Line 438: the break target is not inside this view.
BreakBeyondView(RemainingLen, BufLen) == U32Ge(RemainingLen, BufLen)

\* The loader has set CdoPtr->BufPtr and CdoPtr->BufLen to a chunk of n words:
\* any length up to MaxChunk for the fixed handlers; with arbitrary handlers
\* the shortest chunk (chunks of one word reach every boundary), one long
\* enough for a partial execution, or all that is left of the object.
ChunkLens ==
    {n \in 1..(Len(stream) - fed) :
        /\ \/ n <= MaxChunk /\ det
           \/ n <= MaxChunk /\ n >= XPLMI_CMD_LEN_TEMPBUF
           \/ n = (IF Cdo.Cdo1stChunk THEN XPLMI_CDO_HDR_LEN ELSE 1)
           \/ n = Len(stream) - fed
        /\ Cdo.Cdo1stChunk => n >= XPLMI_CDO_HDR_LEN}

ProcessCdo_Begin(n, sld) ==
    /\ pc = "idle"
    /\ ret \in {"none", XST_SUCCESS}
    /\ n \in ChunkLens
    /\ LET chunk == SubSeq(stream, fed + 1, fed + n)
           c0 == [Cdo EXCEPT !.BufLen = n]
           first == c0.Cdo1stChunk
           hs == IF first THEN XPlmi_CdoVerifyHeader(chunk) ELSE XST_SUCCESS
           l0 == [LocZero EXCEPT !.Buf = chunk, !.base = fed, !.BufLen = n,
                                 !.SldInitiated = sld]
           k0 == [CallZero EXCEPT !.sld = sld,
                                  !.endAtEntry = Cdo.CmdEndDetected,
                                  !.brkAtEntry = Cdo.Cmd.BreakLength,
                                  !.PAtEntry = Cdo.ProcessedCdoLen,
                                  !.defAtEntry = Cdo.DeferredError,
                                  !.atEntry = IF Cdo.CmdEndDetected \/ Cdo.Cdo1stChunk
                                               THEN c0
                                               ELSE CdoZero,
                                  !.copied = Cdo.CopiedCmdLen,
                                  !.first = (fed = 0),
                                  !.hdr = first,
                                  !.ptr0 = IF first THEN XPLMI_CDO_HDR_LEN ELSE 0]
       IN
       /\ fed' = fed + n
       /\ IF hs # XST_SUCCESS
          THEN /\ Cdo' = HeaderFailed(c0)
               /\ loc' = [l0 EXCEPT !.Status = hs]
               /\ call' = [k0 EXCEPT !.err = hs, !.other = TRUE]
               /\ pc' = "end"
          ELSE
          LET c1 == IF first THEN HeaderDone(c0, chunk[4]) ELSE c0
              Ptr1 == IF first THEN XPLMI_CDO_HDR_LEN ELSE 0
              Len1 == IF first THEN U32Sub(n, XPLMI_CDO_HDR_LEN) ELSE n
              Len2 == CapBufLen(c1, Len1)
              c2 == IF Len2 # Len1 THEN [c1 EXCEPT !.BufLen = Len2] ELSE c1
          IN  IF EndSeenBefore(c2)
              THEN /\ Cdo' = c2
                   /\ loc' = [l0 EXCEPT !.BufPtr = Ptr1, !.BufLen = Len2,
                                        !.Status = XST_SUCCESS]
                   /\ call' = [k0 EXCEPT !.viewLen = Len2]
                   /\ pc' = "end"
              ELSE
              LET Stitched == c2.CopiedCmdLen # 0
                  Buf3 == IF Stitched THEN c2.TempCmdBuf \o chunk ELSE chunk
                  Base3 == IF Stitched THEN fed - Len(c2.TempCmdBuf) ELSE fed
                  Ptr3 == IF Stitched THEN 0 ELSE Ptr1
                  Len3 == IF Stitched THEN U32Add(Len2, c2.CopiedCmdLen) ELSE Len2
                  c3 == [c2 EXCEPT !.CopiedCmdLen = 0]
                  l3 == [l0 EXCEPT !.Buf = Buf3, !.base = Base3, !.BufPtr = Ptr3,
                                   !.BufLen = Len3]
                  k3 == [k0 EXCEPT !.viewLen = Len3, !.chunk = Len2]
                  RemainingLen == U32Sub(c3.Cmd.BreakLength, c3.ProcessedCdoLen)
              IN  IF c3.Cmd.BreakLength # 0 /\ BreakBeyondView(RemainingLen, Len3)
                  THEN /\ Cdo' = [c3 EXCEPT !.ProcessedCdoLen = U32Add(@, Len3)]
                       /\ loc' = [l3 EXCEPT !.Status = XST_SUCCESS]
                       /\ call' = k3
                       /\ pc' = "end"
                  ELSE IF c3.Cmd.BreakLength # 0
                  THEN /\ Cdo' = [c3 EXCEPT !.ProcessedCdoLen = U32Add(@, RemainingLen),
                                             !.Cmd.BreakLength = 0]
                       /\ loc' = [l3 EXCEPT !.BufLen = U32Sub(Len3, RemainingLen),
                                            !.BufPtr = Ptr3 + RemainingLen]
                       /\ call' = [k3 EXCEPT !.jumped = TRUE]
                       /\ pc' = "loop"
                  ELSE /\ Cdo' = c3
                       /\ loc' = l3
                       /\ call' = k3
                       /\ pc' = "loop"
    /\ last' = IF pc' = "loop" /\ call'.jumped
               THEN [last EXCEPT !.reached =
                        [set |-> TRUE, P |-> Cdo'.ProcessedCdoLen,
                         pos |-> loc'.base + loc'.BufPtr - XPLMI_CDO_HDR_LEN]]
               ELSE last
    /\ UNCHANGED <<stream, det, ret, log>>

(***************************************************************************)
(* XPlmi_ProcessCdo, lines 454-503: one iteration of the loop.             *)
(***************************************************************************)
\* Faulty variant: the words the command itself consumed are left out of the test.
BreakInsideView_NoSize(BufLen, Size, BreakLength, ProcessedCdoLen) ==
    U32Gt(BufLen, U32Sub(BreakLength, ProcessedCdoLen))

\* Line 487: the break target lies inside what is left of the view.
BreakInsideView(BufLen, Size, BreakLength, ProcessedCdoLen) ==
    U32Gt(BufLen, U32Sub(U32Add(Size, BreakLength), ProcessedCdoLen))

\* Faulty variant: the view moves past the command only, not on to the target.
JumpSize_NoSkip(Size, BreakLength, ProcessedCdoLen) == Size

\* Line 489: the words the view moves by when it jumps to the break target.
JumpSize(Size, BreakLength, ProcessedCdoLen) ==
    U32Add(Size, U32Sub(BreakLength, ProcessedCdoLen))

\* Faulty variant: a target already passed is not noticed.
InvalidBreak_Never(BreakLength, ProcessedCdoLen) == FALSE

\* Line 483: the break target lies before what has been processed.
InvalidBreak(BreakLength, ProcessedCdoLen) == U32Lt(BreakLength, ProcessedCdoLen)

\* Faulty variant: the command's signal is assigned, not ORed in.
OrDeferred_Assign(cdo) == [cdo EXCEPT !.DeferredError = cdo.Cmd.DeferredError]

\* Faulty variant: no mode keeps the loop going after a failure.
ContinueOnError_Never(SldInitiated) == FALSE

\* Faulty variant: every mode keeps the loop going after a failure.
ContinueOnError_Always(SldInitiated) == TRUE

\* Lines 464-475: in secure lockdown a failure is handed to the error
\* manager and the loop goes on.
ContinueOnError(SldInitiated) == SldInitiated = TRUE

\* Line 463: CdoPtr->DeferredError |= CdoPtr->Cmd.DeferredError.
OrDeferred(cdo) == [cdo EXCEPT !.DeferredError = (@ \/ cdo.Cmd.DeferredError)]

\* Lines 463-503, after the resume or execute call returned r.
LoopTail(r, l) ==
    LET c1 == OrDeferred(r.cdo)
        l1 == [l EXCEPT !.Size = r.Size, !.Status = r.Status]
        T == c1.Cmd.BreakLength
        P == c1.ProcessedCdoLen
    IN  IF r.Status # XST_SUCCESS /\ ~ContinueOnError(l.SldInitiated)
        THEN [pc |-> "end", cdo |-> c1, loc |-> l1]
        ELSE IF c1.CmdEndDetected
        THEN [pc |-> "end", cdo |-> c1, loc |-> l1]
        ELSE IF T # 0 /\ InvalidBreak(T, P)
        THEN [pc |-> "end", cdo |-> c1,
              loc |-> [l1 EXCEPT !.Status = XPLMI_INVALID_BREAK_LENGTH]]
        ELSE IF T # 0 /\ BreakInsideView(l.BufLen, r.Size, T, P)
        THEN LET Size2 == JumpSize(r.Size, T, P)
             IN  [pc |-> "loop",
                  cdo |-> [c1 EXCEPT !.ProcessedCdoLen = U32Add(@, U32Sub(T, P)),
                                     !.Cmd.BreakLength = 0],
                  loc |-> [l1 EXCEPT !.Size = Size2,
                                     !.BufPtr = @ + Size2,
                                     !.BufLen = U32Sub(@, Size2)]]
        ELSE IF T # 0
        THEN [pc |-> "end",
              cdo |-> [c1 EXCEPT !.ProcessedCdoLen =
                                    U32Add(@, U32Sub(l.BufLen, r.Size))],
              loc |-> [l1 EXCEPT !.Status = XST_SUCCESS]]
        ELSE [pc |-> "loop", cdo |-> c1,
              loc |-> [l1 EXCEPT !.BufPtr = @ + r.Size,
                                 !.BufLen = U32Sub(@, r.Size)]]

\* Offset, in command words from the end of the header, of the word at BufPtr.
Pos(l) == l.base + l.BufPtr - XPLMI_CDO_HDR_LEN

InsideChunk(l) == l.BufPtr >= 0 /\ l.BufPtr < Len(l.Buf)

\* The first fatal condition of an iteration, "none" if there is none.
ErrorOf(r, t) ==
    IF r.Status # XST_SUCCESS THEN r.Status
    ELSE IF t.loc.Status = XPLMI_INVALID_BREAK_LENGTH THEN XPLMI_INVALID_BREAK_LENGTH
    ELSE "none"

\* Words a command occupies in the object: its header words and the payload
\* length it declares.
FramedSize(Buf0, Buf1) ==
    IF ShortLen(Buf0) = XPLMI_MAX_SHORT_CMD_LEN
    THEN XPLMI_LONG_CMD_HDR_LEN + Buf1
    ELSE 1 + ShortLen(Buf0)

\* The observation of one iteration: r is what the resume or execute call
\* returned, t what the rest of the iteration made of it, o the handler's
\* outcome and Buf0, Buf1 the first words of the view.
Observe(r, t, o, Buf0, Buf1) ==
    LET invoked == r.disp \in {"execute", "resume"}
        P0 == Cdo.ProcessedCdoLen
        asked == /\ r.disp = "execute" /\ o.ok /\ o.brk = "skip"
                 /\ r.cdo.CmdState = XPLMI_CMD_STATE_START
        pend == IF asked
                THEN [set |-> TRUE, T |-> r.cdo.Cmd.BreakLength,
                      P0 |-> r.cdo.ProcessedCdoLen, pos0 |-> Pos(loc) + r.Size]
                ELSE NoBreak
        plain == o.ok /\ o.brk = "none" /\ o.extra = 0 /\ InsideChunk(loc)
        e == ErrorOf(r, t)
    IN
    /\ last' =
          IF ~invoked THEN last
          ELSE [kind |-> r.disp, at |-> P0, pos |-> Pos(loc), size |-> r.Size,
                avail |-> loc.BufLen, ok |-> o.ok, brkAt |-> Cdo.Cmd.BreakLength,
                from |-> last.pend, pend |-> pend,
                reached |-> IF asked /\ t.pc = "loop" /\ t.cdo.Cmd.BreakLength = 0
                            THEN [set |-> TRUE, P |-> t.cdo.ProcessedCdoLen,
                                  pos |-> Pos(t.loc)]
                            ELSE NoReach,
                start |-> IF r.disp = "execute" THEN P0 ELSE last.start,
                total |-> IF r.disp = "execute" THEN FramedSize(Buf0, Buf1)
                          ELSE last.total,
                clean |-> IF r.disp = "execute" THEN plain ELSE last.clean /\ plain,
                done |-> r.cdo.CmdState = XPLMI_CMD_STATE_START,
                sld |-> loc.SldInitiated,
                grew |-> U32Sub(r.cdo.ProcessedCdoLen, P0),
                stale |-> /\ r.cdo.Cmd.BreakLength # 0
                          /\ U32Lt(r.cdo.Cmd.BreakLength, r.cdo.ProcessedCdoLen),
                extra |-> o.extra,
                defEver |-> (last.defEver \/ o.deferred),
                part |-> IF r.disp = "execute"
                         THEN U32Gt(XPlmi_CmdSize(Buf0, Buf1, loc.BufLen), loc.BufLen)
                         ELSE FALSE,
                retry |-> last.retry]
    /\ log' = IF r.disp = "execute" /\ det
              THEN Append(log, [id |-> r.cdo.Cmd.CmdId, at |-> P0, pos |-> Pos(loc)])
              ELSE log
    /\ call' = [call EXCEPT
                  !.n = IF invoked THEN @ + 1 ELSE @,
                  !.after = IF call.err # "none" /\ invoked THEN @ + 1 ELSE @,
                  !.err = IF @ = "none" THEN e ELSE @,
                  !.errN = IF call.err = "none" /\ e # "none"
                           THEN call.n + (IF invoked THEN 1 ELSE 0) ELSE @,
                  !.hfail = @ \/ (invoked /\ ~o.ok),
                  !.other = @ \/ (e # "none" /\ (~invoked \/ o.ok)),
                  !.defSeen = @ \/ (invoked /\ r.cdo.Cmd.DeferredError),
                  !.beyond = @ \/ Pos(loc) >= Cdo.CdoLen,
                  !.stitch = IF r.disp = "stitch"
                             THEN [set |-> TRUE, P |-> P0, state |-> Cdo.CmdState,
                                   n |-> call.n, len |-> loc.BufLen,
                                   words |-> ViewWords(loc.Buf, loc.BufPtr, loc.BufLen)]
                             ELSE @,
                  !.stray = IF InsideChunk(loc) THEN @ ELSE @ + 1]

LoopGuard ==
    /\ pc = "loop"
    /\ loc.BufLen # 0
    /\ InsideChunk(loc) \/ call.stray < MaxStray

Step(r, o, Buf0, Buf1) ==
    LET t == LoopTail(r, loc)
    IN  /\ Cdo' = t.cdo
        /\ loc' = t.loc
        /\ pc' = t.pc
        /\ Observe(r, t, o, Buf0, Buf1)
        /\ UNCHANGED <<stream, fed, det, ret>>

ProcessCdo_Resume ==
    /\ LoopGuard
    /\ Cdo.CmdState = XPLMI_CMD_STATE_RESUME
    /\ \E o \in ResumeOutcomes(Cdo, loc.BufLen) :
          Step(XPlmi_CdoCmdResume(Cdo, loc.BufLen, o), o, 0, 0)

ProcessCdo_Execute ==
    /\ LoopGuard
    /\ Cdo.CmdState # XPLMI_CMD_STATE_RESUME
    /\ \E Buf0 \in ReadWord(loc.Buf, loc.BufPtr, 0), Buf1 \in ReadWord(loc.Buf, loc.BufPtr, 1) :
          LET Stitch == /\ Buf0 # XPLMI_CMD_END
                        /\ NeedsStitch(XPlmi_CmdSize(Buf0, Buf1, loc.BufLen), loc.BufLen)
              Runs == Buf0 # XPLMI_CMD_END /\ ~Stitch
          IN  \E o \in (IF Runs THEN HandlerOutcomes(Buf0) ELSE {Plain}),
                 cpyOk \in (IF Stitch /\ ~det THEN BOOLEAN ELSE {TRUE}) :
                  Step(XPlmi_CdoCmdExecute(Cdo, Buf0, Buf1,
                                           ViewWords(loc.Buf, loc.BufPtr, loc.BufLen),
                                           loc.BufLen, loc.Size, o, cpyOk),
                       o, Buf0, Buf1)

\* Line 454 with BufLen = 0, then line 505.
ProcessCdo_LoopExit ==
    /\ pc = "loop"
    /\ loc.BufLen = 0
    /\ loc' = [loc EXCEPT !.Status = XST_SUCCESS]
    /\ pc' = "end"
    /\ UNCHANGED <<stream, fed, det, Cdo, ret, log, last, call>>

\* Faulty variant: a failing call returns without the live status update.
LiveStatusAtEnd_SuccessOnly(Status, live) ==
    IF Status = XST_SUCCESS THEN live + 1 ELSE live

\* Lines 507-508: every path arrives at END, where XPlmi_SetPlmLiveStatus
\* is called; live counts the updates of the call.
LiveStatusAtEnd(Status, live) == live + 1

\* Lines 507-509: the live status is set and the call returns.
ProcessCdo_End ==
    /\ pc = "end"
    /\ call' = [CallZero EXCEPT !.live = LiveStatusAtEnd(loc.Status, call.live)]
    /\ ret' = loc.Status
    /\ loc' = LocZero
    /\ pc' = "idle"
    /\ UNCHANGED <<stream, fed, det, Cdo, log, last>>

\* The loader loads the object again once the load ended or was given up.
XPlmi_InitCdo ==
    /\ pc = "idle"
    /\ ret \notin {"none", XST_SUCCESS} \/ fed = Len(stream)
    /\ fed' = 0
    /\ Cdo' = CdoZero
    /\ loc' = LocZero
    /\ ret' = "none"
    /\ log' = <<>>
    /\ last' = LastZero
    /\ call' = CallZero
    /\ UNCHANGED <<stream, det, pc>>

Next ==
    \/ \E n \in 1..Len(stream), sld \in BOOLEAN : ProcessCdo_Begin(n, sld)
    \/ ProcessCdo_Resume
    \/ ProcessCdo_Execute
    \/ ProcessCdo_LoopExit
    \/ ProcessCdo_End
    \/ XPlmi_InitCdo

Spec == Init /\ [][Next]_vars
SpecDet == InitDet /\ [][Next]_vars

(***************************************************************************)
(* A first chunk with a damaged header, and the loader calling             *)
(* XPlmi_ProcessCdo again with the intact object without XPlmi_InitCdo.    *)
(***************************************************************************)
GoodStream == CdoHeader(Len(BodyLong)) \o BodyLong

\* The object of GoodStream with one header word replaced.
HdrRetryStreams ==
    UNION {{[CdoHeader(Len(BodyLong)) EXCEPT ![i] = v] \o BodyLong :
               v \in CorruptValues(CdoHeader(Len(BodyLong))[i])} :
           i \in 1..XPLMI_CDO_HDR_LEN}

InitHdr == InitWith(HdrRetryStreams, FALSE)

\* After a call failed on the header the loader hands the first chunk over
\* again, now intact; the XPlmiCdo is the one the failed call left.
ProcessCdo_Retry ==
    /\ pc = "idle"
    /\ ret \in {XPLMI_ERR_CDO_HDR_ID, XPLMI_ERR_CDO_CHECKSUM}
    /\ ~last.retry
    /\ stream' = GoodStream
    /\ fed' = 0
    /\ ret' = "none"
    /\ last' = [last EXCEPT !.retry = TRUE]
    /\ UNCHANGED <<det, Cdo, pc, loc, log, call>>

NextHdr ==
    \/ \E n \in 1..Len(stream), sld \in BOOLEAN : ProcessCdo_Begin(n, sld)
    \/ ProcessCdo_Resume
    \/ ProcessCdo_Execute
    \/ ProcessCdo_LoopExit
    \/ ProcessCdo_End
    \/ XPlmi_InitCdo
    \/ ProcessCdo_Retry

SpecHdr == InitHdr /\ [][NextHdr]_vars

(***************************************************************************)
(* XPlmi_CmdSize on its own: the two words at Buf are drawn from SizeWords *)
(* and SizeLongLens, the available length from SizeAvail; the result is    *)
(* left in loc.Size.                                                       *)
(***************************************************************************)
SizeWords ==
    {CmdWord(op, n) : op \in {1, 3},
                      n \in {0, 1, 2, XPLMI_MAX_SHORT_CMD_LEN - 1, XPLMI_MAX_SHORT_CMD_LEN}}

SizeLongLens ==
    {0, 1, 2, XPLMI_MAX_SHORT_CMD_LEN, 2147483647, (0 - 2147483647) - 1,
     U32Sub(XPLMI_MAX_LONG_CMD_LEN, 1), XPLMI_MAX_LONG_CMD_LEN,
     U32Add(XPLMI_MAX_LONG_CMD_LEN, 1), 0 - 1}

SizeAvail == {0, 1, 2, 3, MaxChunk}

InitSize ==
    /\ stream \in {<<w, l>> : w \in SizeWords, l \in SizeLongLens}
    /\ det = TRUE
    /\ fed = 0
    /\ Cdo = CdoZero
    /\ pc = "idle"
    /\ loc = LocZero
    /\ ret = "none"
    /\ log = <<>>
    /\ last = LastZero
    /\ call = CallZero

CmdSize_Apply(AvailLen) ==
    /\ pc = "idle"
    /\ loc' = [loc EXCEPT !.BufLen = AvailLen,
                          !.Size = XPlmi_CmdSize(stream[1], stream[2], AvailLen)]
    /\ pc' = "end"
    /\ UNCHANGED <<stream, fed, det, Cdo, ret, log, last, call>>

NextSize == \E AvailLen \in SizeAvail : CmdSize_Apply(AvailLen)

SpecSize == InitSize /\ [][NextSize]_vars

(***************************************************************************)
(* Properties.                                                             *)
(***************************************************************************)
InCall == pc \in {"loop", "end"}
AllDelivered == pc = "idle" /\ fed = Len(stream)

\* A break target is set and lies before what has been processed.
StaleBreak == Cdo.Cmd.BreakLength # 0 /\ U32Lt(Cdo.Cmd.BreakLength, Cdo.ProcessedCdoLen)

\* The command words of an object: what follows the header, up to the
\* length the header declares.
BodyOf(s) == SubSeq(s, XPLMI_CDO_HDR_LEN + 1, XPLMI_CDO_HDR_LEN + s[4])

IsPrefix(a, b) == Len(a) <= Len(b) /\ a = SubSeq(b, 1, Len(a))

\* The dispatches and the final processed length of an object read as one
\* contiguous sequence of commands, from offset p on.
RECURSIVE RefRun(_, _, _)
RefRun(body, p, acc) ==
    IF p >= Len(body) THEN [log |-> acc, final |-> Len(body)]
    ELSE IF body[p + 1] = XPLMI_CMD_END THEN [log |-> acc, final |-> p]
    ELSE LET w0 == body[p + 1]
             w1 == IF p + 2 <= Len(body) THEN body[p + 2] ELSE 0
             o == DetOutcome(w0)
             next == p + FramedSize(w0, w1) + (IF o.brk = "skip" THEN o.k ELSE 0)
         IN  RefRun(body, next, Append(acc, [id |-> w0, at |-> p, pos |-> p]))

C2_EndFinality ==
    (InCall /\ call.endAtEntry) =>
        /\ call.n = 0
        /\ pc = "end"
        /\ loc.Status = XST_SUCCESS

\* C2 witness: such a call returns although its view still holds words.
C2_Witness ==
    pc = "end" /\ call.endAtEntry /\ loc.BufLen > 0

\* C3: Break semantics.  After a successful dispatch requested a break to
\* T >= ProcessedCdoLen, the target stays pending with ProcessedCdoLen <= T
\* until it is reached; it is reached with ProcessedCdoLen = T, the target
\* cleared and, for a target that is a word of the object, the view
\* exactly T - ProcessedCdoLen words past the end of the requesting command; and the next handler invoked after the request is
\* invoked with ProcessedCdoLen = T and no target pending, so no command that
\* starts before T is dispatched.  This holds in the same view and across calls.
C3_BreakSemantics ==
    /\ (last.pend.set /\ ~last.reached.set) =>
          /\ Cdo.Cmd.BreakLength = last.pend.T
          /\ ~U32Gt(Cdo.ProcessedCdoLen, last.pend.T)
    /\ (last.pend.set /\ last.reached.set) =>
          /\ last.reached.P = last.pend.T
          /\ last.pend.pos0 + (last.pend.T - last.pend.P0) < Cdo.CdoLen =>
                last.reached.pos = last.pend.pos0 + (last.pend.T - last.pend.P0)
          /\ Cdo.Cmd.BreakLength = 0
    /\ last.from.set =>
          /\ last.at = last.from.T
          /\ last.brkAt = 0

\* C3 witness: a target requested in an earlier call, some words further on,
\* has been reached in this call and the command there has been dispatched.
C3_Witness ==
    /\ InCall /\ call.jumped /\ call.n = 1
    /\ last.from.set /\ last.from.T > last.from.P0
    /\ last.at = last.from.T

\* C4: Break beyond the chunk.  A call entered with a break target T that
\* is not inside its view (T - ProcessedCdoLen >= view length) invokes no
\* handler, adds exactly the view length to ProcessedCdoLen, leaves the
\* target set and returns success.
C4_BreakBeyondChunk ==
    (/\ InCall
     /\ call.brkAtEntry # 0
     /\ U32Ge(U32Sub(call.brkAtEntry, call.PAtEntry), call.viewLen)) =>
        /\ pc = "end"
        /\ call.n = 0
        /\ Cdo.ProcessedCdoLen = call.PAtEntry + call.viewLen
        /\ Cdo.Cmd.BreakLength = call.brkAtEntry
        /\ loc.Status = XST_SUCCESS

\* C4 witness: a non-empty view is skipped whole.
C4_Witness ==
    /\ pc = "end" /\ call.brkAtEntry # 0 /\ call.viewLen > 0
    /\ U32Ge(U32Sub(call.brkAtEntry, call.PAtEntry), call.viewLen)

\* C5: Resume correctness.  While the dispatches of a command succeed with
\* no break request and no extra words: an execute on a view shorter than
\* the command leaves CmdState = RESUME with the view counted; every resume
\* leaves RESUME until the view holds the command's last word and START
\* then; and at completion ProcessedCdoLen has grown by exactly the
\* command's framed size since its execute.
C5_ResumeCorrectness ==
    /\ (last.kind = "execute" /\ last.clean /\ U32Gt(last.total, last.avail)) =>
          /\ Cdo.CmdState = XPLMI_CMD_STATE_RESUME
          /\ Cdo.ProcessedCdoLen = last.start + last.avail
    /\ (last.kind = "resume" /\ last.clean) =>
          /\ last.done <=> (last.at + last.avail >= last.start + last.total)
          /\ last.done =>
                /\ Cdo.CmdState = XPLMI_CMD_STATE_START
                /\ Cdo.ProcessedCdoLen = last.start + last.total
          /\ ~last.done =>
                /\ Cdo.CmdState = XPLMI_CMD_STATE_RESUME
                /\ Cdo.ProcessedCdoLen = last.at + last.avail
                /\ Cdo.ProcessedCdoLen < last.start + last.total

\* C5 witness: a command completed by a resume after at least two chunks.
C5_Witness ==
    /\ last.kind = "resume" /\ last.clean /\ last.done
    /\ last.at > last.start
    /\ Cdo.ProcessedCdoLen = last.start + last.total

\* C6: Lockdown no-abort.  A call in secure lockdown whose only failures are
\* handler failures returns success, and it returns only because the view is
\* exhausted, the end marker was reached or a break target is pending.
C6_LockdownNoAbort ==
    (pc = "end" /\ call.sld /\ call.hfail /\ ~call.other) =>
        /\ loc.Status = XST_SUCCESS
        /\ \/ loc.BufLen = 0
           \/ Cdo.CmdEndDetected
           \/ Cdo.Cmd.BreakLength # 0

\* C6 witness: a handler failed in lockdown, a later command of the same view
\* was still dispatched, and the call returned at the end marker.
C6_Witness ==
    /\ pc = "end" /\ call.sld /\ call.hfail /\ ~call.other
    /\ call.after >= 1 /\ Cdo.CmdEndDetected

\* C7: Lockdown accounting.  After a handler failure in secure lockdown
\* ProcessedCdoLen has advanced by the words the failing dispatch consumed,
\* as the view has.
C7_LockdownAccounting ==
    (last.sld /\ ~last.ok) => last.grew = last.size

\* C8: Lockdown deferred error.  At the return of a lockdown call in which a
\* handler's execute or resume entry failed, DeferredError is set.
C8_LockdownDeferred ==
    (pc = "end" /\ call.sld /\ call.hfail) => Cdo.DeferredError

\* C9: Normal-mode abort.  Outside lockdown the first failure ends the call:
\* the call returns that failure's status and no handler runs after it.
C9_NormalModeAbort ==
    (InCall /\ ~call.sld /\ call.err # "none") =>
        /\ pc = "end"
        /\ loc.Status = call.err
        /\ call.n = call.errN
        /\ call.after = 0

\* C9 witness: a handler failed outside lockdown with words of the view
\* still unprocessed.
C9_Witness ==
    /\ pc = "end" /\ ~call.sld /\ call.err = HANDLER_FAILURE
    /\ call.n >= 2 /\ U32Gt(loc.BufLen, loc.Size)

\* C10: Always-fatal stream errors.  A header identification failure, a
\* header checksum failure and a stitch copy failure end the call with that
\* status in lockdown as outside it.
C10_AlwaysFatal ==
    (InCall /\ call.err \in {XPLMI_ERR_CDO_HDR_ID, XPLMI_ERR_CDO_CHECKSUM,
                              XPLMI_ERR_MEMCPY_CMD_EXEC}) =>
        /\ pc = "end"
        /\ loc.Status = call.err

\* C11: Header integrity.  A valid header passes the identification and the
\* checksum test (last word = complement of the wrapping sum of the words
\* before it); with any one word before the checksum word replaced by another
\* value the first call dispatches nothing and returns XPLMI_ERR_CDO_HDR_ID
\* when the identification word was replaced, XPLMI_ERR_CDO_CHECKSUM otherwise.
C11_HeaderIntegrity ==
    /\ stream \in WellFormedStreams =>
          call.err \notin {XPLMI_ERR_CDO_HDR_ID, XPLMI_ERR_CDO_CHECKSUM}
    /\ \A i \in 1..(XPLMI_CDO_HDR_LEN - 1) :
          (InCall /\ stream[i] # CdoHeader(2)[i]
                  /\ SubSeq(stream, 1, XPLMI_CDO_HDR_LEN) = HdrCorrupt(i, stream[i])) =>
              /\ pc = "end"
              /\ call.n = 0
              /\ Cdo.Cdo1stChunk
              /\ loc.Status = IF i = 2 THEN XPLMI_ERR_CDO_HDR_ID
                              ELSE XPLMI_ERR_CDO_CHECKSUM

\* C11 witness: the first call on a header whose first word was replaced by
\* 0x7FFFFFFF, so that the sum wraps, returns the checksum error.
C11_Witness ==
    /\ pc = "end" /\ stream[1] = 2147483647
    /\ loc.Status = XPLMI_ERR_CDO_CHECKSUM /\ call.n = 0

\* C12: Length decoding.  With at least one word available, XPlmi_CmdSize
\* returns 1 + N for a command word whose bits [23:16] hold N < 255; for
\* N = 255 and two words available it returns 2 + min(L, 0xFFFFFFFD), L the
\* second word; for N = 255 and one word available it returns more than the
\* available length.
C12_LengthDecoding ==
    LET N == ShortLen(stream[1])
        L == stream[2]
        A == loc.BufLen
        MinL == IF U32Lt(L, XPLMI_MAX_LONG_CMD_LEN) THEN L ELSE XPLMI_MAX_LONG_CMD_LEN
    IN  (pc = "end" /\ Len(stream) = 2 /\ A >= 1) =>
           /\ N < XPLMI_MAX_SHORT_CMD_LEN => loc.Size = 1 + N
           /\ (N = XPLMI_MAX_SHORT_CMD_LEN /\ A >= 2) => loc.Size = U32Add(2, MinL)
           /\ (N = XPLMI_MAX_SHORT_CMD_LEN /\ A = 1) => U32Gt(loc.Size, A)

\* C12 witness: a long length above the cap decodes to 2 + 0xFFFFFFFD.
C12_Witness ==
    /\ pc = "end" /\ Len(stream) = 2 /\ loc.BufLen = 2
    /\ ShortLen(stream[1]) = XPLMI_MAX_SHORT_CMD_LEN
    /\ U32Gt(stream[2], XPLMI_MAX_LONG_CMD_LEN)
    /\ loc.Size = 0 - 1

C14_LengthBound ==
    (pc = "end" /\ ~Cdo.Cdo1stChunk) =>
        /\ ~U32Gt(U32Add(Cdo.ProcessedCdoLen, Cdo.CopiedCmdLen), Cdo.CdoLen)
        /\ ~call.beyond

\* C15: Live status.  A call updates the live status exactly once, as its
\* last action: no update has happened while the call is still running, and
\* exactly one has happened when it has returned, whatever status it returns.
C15_LiveStatus ==
    /\ InCall => call.live = 0
    /\ (pc = "idle" /\ ret # "none") => call.live = 1

\* C15 witness: a call that ended with a fatal error has returned.
C15_Witness ==
    /\ pc = "idle" /\ call.live = 1
    /\ ret \in {XPLMI_ERR_CDO_CHECKSUM, XPLMI_INVALID_BREAK_LENGTH, HANDLER_FAILURE}

\* C16: The header is verified once per object.  Cdo1stChunk is set after
\* XPlmi_InitCdo; the first call after it, and no other, verifies the header
\* and moves past the header words; once the header is verified Cdo1stChunk
\* is clear and CdoLen is the length word of the header for good.
C16_HeaderOnce ==
    /\ (pc = "idle" /\ fed = 0) => Cdo.Cdo1stChunk
    /\ InCall =>
          /\ call.hdr <=> call.first
          /\ call.ptr0 = IF call.first THEN XPLMI_CDO_HDR_LEN ELSE 0
    /\ (fed > 0 /\ ~(call.hdr /\ call.err # "none") /\ ret \in {"none", XST_SUCCESS}) =>
          /\ ~Cdo.Cdo1stChunk
          /\ Cdo.CdoLen = stream[4]

\* C16 witness: a third or later call on an object, which verifies nothing.
C16_Witness ==
    /\ InCall /\ ~call.first /\ ~call.hdr /\ call.n >= 1
    /\ call.PAtEntry > 0 /\ loc.base > XPLMI_CDO_HDR_LEN + 1

\* C17: Deferred error is sticky.  DeferredError is set exactly when some
\* command dispatched since XPlmi_InitCdo has raised its deferred signal: it
\* is set right after such a dispatch, also when that dispatch fails and
\* ends the call, and no later dispatch, call or return clears it.
C17_DeferredSticky ==
    Cdo.DeferredError <=> last.defEver

\* C17 witness: outside lockdown a handler raised its deferred signal and
\* failed; the call ends with the flag newly set.
C17_Witness ==
    /\ pc = "end" /\ ~call.sld /\ loc.Status = HANDLER_FAILURE
    /\ ~last.ok /\ ~call.defAtEntry /\ Cdo.DeferredError /\ call.n = 1

\* C18 as stated: END is a no-op afterwards.  A call made after END was
\* detected returns success and leaves every field of the object as the
\* loader handed it over, the recorded view length included.
C18_EndNoOp ==
    (pc = "end" /\ call.endAtEntry) =>
        /\ loc.Status = XST_SUCCESS
        /\ call.n = 0
        /\ Cdo = call.atEntry

\* C18 amended: a call made after END was detected invokes no handler, returns
\* success and leaves every field of the object unchanged except the recorded
\* view length, which is cut down to CdoLen - ProcessedCdoLen - CopiedCmdLen
\* when the chunk handed over reaches past the declared object length.
C18_EndNoOpButView ==
    (pc = "end" /\ call.endAtEntry) =>
        LET e == call.atEntry
            past == U32Gt(U32Add(U32Add(e.BufLen, e.ProcessedCdoLen),
                                 e.CopiedCmdLen), e.CdoLen)
        IN  /\ loc.Status = XST_SUCCESS
            /\ call.n = 0
            /\ [Cdo EXCEPT !.BufLen = 0] = [e EXCEPT !.BufLen = 0]
            /\ past => Cdo.BufLen = U32Sub(U32Sub(e.CdoLen, e.ProcessedCdoLen),
                                           e.CopiedCmdLen)
            /\ ~past => Cdo.BufLen = e.BufLen

\* C18 witness: after END at its true offset, a chunk of padding longer than
\* what is left of the declared length is handed over and the recorded view
\* length is cut down.
C18_Witness ==
    /\ pc = "end" /\ call.endAtEntry /\ loc.Status = XST_SUCCESS
    /\ call.atEntry.ProcessedCdoLen + call.atEntry.BufLen > Cdo.CdoLen
    /\ call.atEntry.ProcessedCdoLen < Cdo.CdoLen
    /\ Cdo.BufLen = Cdo.CdoLen - Cdo.ProcessedCdoLen
    /\ Cdo.BufLen < call.atEntry.BufLen

\* The first state of a call's loop: nothing was dispatched, copied or failed.
LoopFresh ==
    /\ pc = "loop" /\ call.n = 0 /\ ~call.stitch.set /\ call.err = "none"

\* C19: Stitch step.  A fresh command whose framed size exceeds a view of
\* fewer than XPLMI_CMD_LEN_TEMPBUF words is not handed to a handler: once
\* its words are copied the call returns success with ProcessedCdoLen and
\* CmdState as they were and CopiedCmdLen = the view length.  The next call
\* parses a view of CopiedCmdLen + the new chunk's length (as cut down to the
\* declared object length) that starts with the copied words, and clears
\* CopiedCmdLen.
C19_StitchStep ==
    /\ (last.kind = "execute" /\ last.part) =>
           ~U32Lt(last.avail, XPLMI_CMD_LEN_TEMPBUF)
    /\ call.stitch.set =>
           /\ U32Lt(call.stitch.len, XPLMI_CMD_LEN_TEMPBUF)
           /\ call.stitch.state = XPLMI_CMD_STATE_START
           /\ call.n = call.stitch.n
           /\ Cdo.ProcessedCdoLen = call.stitch.P
           /\ Cdo.CmdState = call.stitch.state
           /\ Cdo.CopiedCmdLen = call.stitch.len
           /\ Cdo.TempCmdBuf = call.stitch.words
           /\ pc = "end" => loc.Status = XST_SUCCESS
    /\ (InCall /\ call.copied # 0 /\ pc = "loop") =>
           call.viewLen = U32Add(call.copied, call.chunk)
    /\ (LoopFresh /\ call.copied # 0) =>
           /\ Cdo.CopiedCmdLen = 0
           /\ loc.BufLen = U32Add(call.copied, call.chunk)
           /\ loc.BufPtr = 0
           /\ IsPrefix(Cdo.TempCmdBuf, loc.Buf)
           /\ Len(loc.Buf) = Len(Cdo.TempCmdBuf) + (fed - (loc.base + Len(Cdo.TempCmdBuf)))

\* C19 witness: a call entered with copied words has dispatched the command
\* that spans the copied words and the new chunk, from the start of its view.
C19_Witness ==
    /\ InCall /\ call.copied # 0 /\ call.n = 1
    /\ last.kind = "execute" /\ last.ok /\ last.at = call.PAtEntry
    /\ last.size > call.copied /\ last.size <= call.viewLen
    /\ Cdo.CopiedCmdLen = 0

\* C20 as stated: Extra consumed words.  The extra words a handler reports
\* are added to ProcessedCdoLen in the iteration in which its command
\* completes, in the execute entry and in the resume entry alike, and are
\* not added by an iteration that leaves the command unfinished.
C20_ExtraWords ==
    (last.kind \in {"execute", "resume"} /\ last.ok) =>
        last.grew = U32Add(last.size, IF last.done THEN last.extra ELSE 0)

\* C21: Termination.  Every iteration of the loop of XPlmi_ProcessCdo that
\* stays in the loop consumes at least one word of the view: the remaining
\* view length, read as the u32 it is, strictly decreases, so the call ends
\* after at most as many iterations as its view has words.
C21_ViewDecreases ==
    [][(pc = "loop" /\ pc' = "loop") => U32Lt(loc'.BufLen, loc.BufLen)]_vars

\* C22: No view underflow.  In every iteration that goes on with the loop,
\* in either mode, the number of words Size the view is advanced by is at
\* most the remaining view length BufLen, so the u32 BufLen does not wrap
\* and the view stays inside the words supplied.
C22_NoViewUnderflow ==
    [][(pc = "loop" /\ pc' = "loop") =>
          /\ ~U32Gt(loc'.Size, loc.BufLen)
          /\ ~U32Gt(loc'.BufLen, loc.BufLen)]_vars

\* C23: Suspension states are exclusive with stitching.  At the return of
\* every call CopiedCmdLen is below XPLMI_CMD_LEN_TEMPBUF, and a non-zero
\* CopiedCmdLen comes with CmdState = START, no break target pending and
\* END not detected.  The call that follows clears a non-zero CopiedCmdLen
\* before its loop; what it returns with was copied by that call itself.
C23_StitchExclusive ==
    /\ pc = "end" =>
          /\ U32Lt(Cdo.CopiedCmdLen, XPLMI_CMD_LEN_TEMPBUF)
          /\ Cdo.CopiedCmdLen # 0 =>
                /\ Cdo.CmdState = XPLMI_CMD_STATE_START
                /\ Cdo.Cmd.BreakLength = 0
                /\ ~Cdo.CmdEndDetected
    /\ (LoopFresh /\ call.copied # 0) => Cdo.CopiedCmdLen = 0
    /\ (pc = "end" /\ call.copied # 0 /\ Cdo.CopiedCmdLen # 0) =>
          /\ call.stitch.set
          /\ Cdo.CopiedCmdLen = call.stitch.len

\* C23 witness: a call entered with copied words finds the command still
\* longer than its view, copies the longer view and returns.
C23_Witness ==
    /\ pc = "end" /\ call.copied # 0 /\ call.n = 0
    /\ call.stitch.set /\ Cdo.CopiedCmdLen > call.copied
    /\ Cdo.CmdState = XPLMI_CMD_STATE_START /\ loc.Status = XST_SUCCESS

HeaderErrors == {XPLMI_ERR_CDO_HDR_ID, XPLMI_ERR_CDO_CHECKSUM}

\* C24: Header failure leaves the state untouched.  A call whose header
\* verification fails dispatches nothing and returns with every field of
\* the object as it was at entry, Cdo1stChunk still set and CdoLen and
\* ProcessedCdoLen zero.  A later call that is given an intact first chunk
\* verifies the header, reads CdoLen, skips the header and starts at
\* ProcessedCdoLen = 0, as the first call after XPlmi_InitCdo does.
C24_HeaderFailureUntouched ==
    /\ (pc = "end" /\ loc.Status \in HeaderErrors) =>
          /\ call.hdr /\ call.n = 0
          /\ Cdo = call.atEntry
          /\ Cdo.Cdo1stChunk
          /\ Cdo.CdoLen = 0 /\ Cdo.ProcessedCdoLen = 0
    /\ (pc = "idle" /\ ret \in HeaderErrors) =>
          [Cdo EXCEPT !.BufLen = 0] = CdoZero
    /\ (last.retry /\ pc = "idle" /\ fed = 0) =>
          [Cdo EXCEPT !.BufLen = 0] = CdoZero
    /\ (last.retry /\ InCall /\ call.first) =>
          /\ call.hdr /\ call.err \notin HeaderErrors
          /\ call.PAtEntry = 0
          /\ ~Cdo.Cdo1stChunk
          /\ Cdo.CdoLen = stream[4]

\* C24 witness: after a failed header verification and no XPlmi_InitCdo the
\* intact first chunk was handed over, verified, and its command dispatched.
C24_Witness ==
    /\ last.retry /\ InCall /\ call.first /\ call.hdr
    /\ call.n >= 1 /\ last.at = 0 /\ last.pos = 0
    /\ Cdo.CdoLen = Len(BodyLong)

====
